---- MODULE Spec2Model ----
(***************************************************************************)
(* State-machine model of tes_gui.py: the option form of MainWindow, the   *)
(* technique selector, and the findTemperature handler together with the   *)
(* plot windows it opens.                                                  *)
(*                                                                         *)
(* Conventions                                                             *)
(*  - The text of a QLineEdit is a sequence of one-character strings.      *)
(*  - Every real number (temperature in K, wavelength in microns, plate    *)
(*    emissivity, radiance) is held in tenths: 300.1 K is 3001.            *)
(*    The sweep step 0.1 is therefore 1 and "upperTemp+1" adds 10.         *)
(*  - The variable run is the log of the handler of the most recent GUI    *)
(*    event: it is empty after an edit, a toggle or a technique change.    *)
(***************************************************************************)
EXTENDS Integers, Sequences, FiniteSets, TLC

\* ------------------------------------------------------------------ bounds

\* Number of wavelength bins of every spectrum.
NumWave == 2

\* ------------------------------------------------------------------- texts

Digits == {"0", "1", "2", "3", "4", "5", "6", "7", "8", "9"}

DigitVal == [c \in Digits |->
    CASE c = "0" -> 0 [] c = "1" -> 1 [] c = "2" -> 2 [] c = "3" -> 3
      [] c = "4" -> 4 [] c = "5" -> 5 [] c = "6" -> 6 [] c = "7" -> 7
      [] c = "8" -> 8 [] c = "9" -> 9]

Empty == << >>

RECURSIVE DecVal(_)
\* Value of a sequence of decimal digits (0 for the empty sequence).
DecVal(s) ==
    IF s = << >> THEN 0
    ELSE DecVal(SubSeq(s, 1, Len(s) - 1)) * 10 + DigitVal[s[Len(s)]]

\* int(text): accepted exactly when the text is a non-empty digit string.
PyIntOk(s) == Len(s) > 0 /\ \A i \in 1..Len(s) : s[i] \in Digits

PyIntVal(s) == DecVal(s)

DotAt(s) == {i \in 1..Len(s) : s[i] = "."}

IntPart(s) == IF DotAt(s) = {} THEN s
              ELSE SubSeq(s, 1, (CHOOSE i \in DotAt(s) : TRUE) - 1)

FracPart(s) == IF DotAt(s) = {} THEN << >>
               ELSE SubSeq(s, (CHOOSE i \in DotAt(s) : TRUE) + 1, Len(s))

\* float(text): digits with at most one decimal point and at least one digit.
\* The form texts of the model carry at most one fractional digit, which is
\* what a value held in tenths can represent.
PyFloatOk(s) ==
    /\ \A i \in 1..Len(s) : s[i] \in Digits \cup {"."}
    /\ Cardinality(DotAt(s)) <= 1
    /\ Len(IntPart(s)) + Len(FracPart(s)) > 0
    /\ Len(FracPart(s)) <= 1

\* The value of float(text), in tenths.
PyFloatVal(s) ==
    DecVal(IntPart(s)) * 10 + (IF FracPart(s) = << >> THEN 0 ELSE DigitVal[FracPart(s)[1]])

\* -------------------------------------------------- the form and its defaults

\* The items of techniqueComboBox, each a sequence of words.
TechniqueItems == <<
    <<"Waterband", "Temperature", "Emissivity", "Separation">>,
    <<"Standard", "Temperature", "Emissivity", "Separation">>,
    <<"Moving", "Window", "Temperature", "Emissivity", "Separation">>,
    <<"Variable", "Moving", "Window", "Temperature", "Emissivity", "Separation">>,
    <<"Multiple", "Moving", "Window", "Temperature", "Emissivity", "Separation">> >>

\* Python's  word in text  on the combo box text.
Contains(word, text) == \E i \in 1..Len(text) : text[i] = word

\* The per-technique defaults _parseConfig reads from tes_config.xml.
wbTolerance == <<"1">>
wbLowerTemp == <<"3", "0", "0">>
wbUpperTemp == <<"3", "0", "0", ".", "1">>
wbLowerWave == <<"8">>
wbUpperWave == <<"9">>
stdTolerance == <<"1">>
stdLowerTemp == <<"3", "0", "0">>
stdUpperTemp == <<"3", "0", "0", ".", "1">>
stdLowerWave == <<"8">>
stdUpperWave == <<"1", "0">>
mwTolerance == <<"1">>
mwLowerTemp == <<"3", "0", "0">>
mwUpperTemp == <<"3", "0", "0", ".", "1">>
mwLowerWave == <<"8">>
mwUpperWave == <<"1", "0">>
mwWinWidth == <<"1">>
vmwTolerance == <<"1">>
vmwLowerTemp == <<"3", "0", "0">>
vmwUpperTemp == <<"3", "0", "0", ".", "1">>
vmwLowerWave == <<"8">>
vmwUpperWave == <<"1", "0">>
vmwLowerWinWidth == <<"1">>
vmwUpperWinWidth == <<"2">>
vmwWinStep == <<"0", ".", "5">>
mmwTolerance == <<"1">>
mmwLowerTemp == <<"3", "0", "0">>
mmwUpperTemp == <<"3", "0", "0", ".", "1">>
mmwLowerWave == <<"8">>
mmwUpperWave == <<"1", "0">>
mmwLowerWinWidth == <<"1">>
mmwUpperWinWidth == <<"2">>
mmwWinStep == <<"0", ".", "5">>
mmwNumWins == <<"2">>

\* The files the user can pick in the Browse dialogs.
CbbFile == <<"c">>
WbbFile == <<"w">>
SamFile == <<"s">>
SamFileSteady == <<"t">>
DwrFile == <<"d">>

VARIABLES
    techniqueComboBox,  \* current index of the technique selector, 1..5
    edit,               \* text of every QLineEdit
    checked,            \* isChecked() of the four plot check boxes
    visible,            \* the visibility flag set on the option widgets
    temperatureEdit,    \* text of the "Sample temperature" label
    run,                \* log of the handler of the most recent event
    remembered          \* an earlier findTemperature call kept for comparison

vars == <<techniqueComboBox, edit, checked, visible, temperatureEdit, run, remembered>>

form == <<techniqueComboBox, edit, checked, visible>>

currentText == TechniqueItems[techniqueComboBox]

EditNames == {"cbbEdit", "wbbEdit", "samEdit", "dwrEdit", "plateEdit",
              "measurementToleranceEdit", "minTempEdit", "maxTempEdit",
              "minWaveEdit", "maxWaveEdit", "minWinEdit", "maxWinEdit",
              "windowStepEdit", "numWindowsEdit"}

CheckBoxNames == {"radiancePlotCheckBox", "emissivityPlotCheckBox",
                  "emissivitySearchCheckBox", "metricPlotCheckBox"}

\* Whether the user can see (and so use) a widget: its own flag and, for the
\* two window-limit edits, the flag of the frame that holds them.
Shown(w) ==
    CASE w = "minWinEdit" -> visible.windowLimitsUnits
      [] w = "maxWinEdit" -> visible.windowLimitsUnits /\ visible.maxWinEdit
      [] w = "windowStepEdit" -> visible.windowStepUnits
      [] w = "numWindowsEdit" -> visible.numWindowsEdit
      [] w = "emissivitySearchCheckBox" -> visible.emissivitySearchCheckBox
      [] w = "metricPlotCheckBox" -> visible.metricPlotCheckBox
      [] OTHER -> TRUE

\* The log of a findTemperature call at its first statement: the locals of
\* the handler, the calls it has issued and the windows it has opened.
\* raised is the exception that ended the handler ("" when it returned).
RunStart ==
    [invoked |-> TRUE, raised |-> "", at |-> "", progress |-> "shown",
     tolerance |-> 0, lowerTemp |-> 0, upperTemp |-> 0,
     lowerWave |-> 0, upperWave |-> 0, plateEmissivity |-> 0,
     sam |-> << >>, dwr |-> << >>,
     calibrateCalls |-> << >>, toleranceTests |-> << >>,
     lowerWin |-> 0, upperWin |-> 0, windowStep |-> 0, numWindows |-> 0,
     windowSteps |-> <<0, 1>>,
     searchCalls |-> << >>, temp |-> 0, diffs |-> << >>, wave |-> << >>,
     labelSet |-> FALSE,
     radiancePlot |-> FALSE, metricPlot |-> << >>, emissivityPlot |-> << >>,
     bbCalls |-> << >>, warning |-> FALSE]

\* The log of an event that did not invoke findTemperature.
NoRun == [RunStart EXCEPT !.invoked = FALSE, !.progress = "none"]

\* No call is remembered. A remembered call holds the form contents it read,
\* the calls it issued, the temperature its search returned, and whether
\* the technique selector was used since.
NothingRemembered ==
    [recorded |-> FALSE, changed |-> FALSE, technique |-> 0,
     edit |-> [n \in EditNames |-> Empty],
     calibrateCalls |-> << >>, searchCalls |-> << >>, temp |-> 0]

_waterbandOptions ==
    /\ edit' = [edit EXCEPT
            !.measurementToleranceEdit = wbTolerance,
            !.minTempEdit = wbLowerTemp, !.maxTempEdit = wbUpperTemp,
            !.minWaveEdit = wbLowerWave, !.maxWaveEdit = wbUpperWave,
            !.minWinEdit = Empty, !.maxWinEdit = Empty,
            !.windowStepEdit = Empty, !.numWindowsEdit = Empty]
    /\ checked' = checked
    /\ visible' = [visible EXCEPT
            !.windowLimitsUnits = FALSE, !.windowStepUnits = FALSE,
            !.numWindowsEdit = FALSE,
            !.emissivitySearchCheckBox = TRUE, !.metricPlotCheckBox = TRUE]

_standardOptions ==
    /\ edit' = [edit EXCEPT
            !.measurementToleranceEdit = stdTolerance,
            !.minTempEdit = stdLowerTemp, !.maxTempEdit = stdUpperTemp,
            !.minWaveEdit = stdLowerWave, !.maxWaveEdit = stdUpperWave,
            !.minWinEdit = Empty, !.maxWinEdit = Empty,
            !.windowStepEdit = Empty, !.numWindowsEdit = Empty]
    /\ checked' = [checked EXCEPT !.metricPlotCheckBox = FALSE]
    /\ visible' = [visible EXCEPT
            !.windowLimitsUnits = FALSE, !.windowStepUnits = FALSE,
            !.numWindowsEdit = FALSE,
            !.emissivitySearchCheckBox = TRUE, !.metricPlotCheckBox = TRUE]

\* _movingOptions without the three setText('') calls of lines 523-525.
_movingOptionsKeepingFields ==
    /\ edit' = [edit EXCEPT
            !.measurementToleranceEdit = mwTolerance,
            !.minTempEdit = mwLowerTemp, !.maxTempEdit = mwUpperTemp,
            !.minWaveEdit = mwLowerWave, !.maxWaveEdit = mwUpperWave,
            !.minWinEdit = mwWinWidth]
    /\ checked' = [checked EXCEPT !.emissivitySearchCheckBox = FALSE,
                                  !.metricPlotCheckBox = FALSE]
    /\ visible' = [visible EXCEPT
            !.maxWinEdit = FALSE, !.windowLimitsUnits = TRUE,
            !.windowStepUnits = FALSE, !.numWindowsEdit = FALSE,
            !.emissivitySearchCheckBox = FALSE, !.metricPlotCheckBox = FALSE]

_movingOptions ==
    /\ edit' = [edit EXCEPT
            !.measurementToleranceEdit = mwTolerance,
            !.minTempEdit = mwLowerTemp, !.maxTempEdit = mwUpperTemp,
            !.minWaveEdit = mwLowerWave, !.maxWaveEdit = mwUpperWave,
            !.minWinEdit = mwWinWidth, !.maxWinEdit = Empty,
            !.windowStepEdit = Empty, !.numWindowsEdit = Empty]
    /\ checked' = [checked EXCEPT !.emissivitySearchCheckBox = FALSE,
                                  !.metricPlotCheckBox = FALSE]
    /\ visible' = [visible EXCEPT
            !.maxWinEdit = FALSE, !.windowLimitsUnits = TRUE,
            !.windowStepUnits = FALSE, !.numWindowsEdit = FALSE,
            !.emissivitySearchCheckBox = FALSE, !.metricPlotCheckBox = FALSE]

_variableOptions ==
    /\ edit' = [edit EXCEPT
            !.measurementToleranceEdit = vmwTolerance,
            !.minTempEdit = vmwLowerTemp, !.maxTempEdit = vmwUpperTemp,
            !.minWaveEdit = vmwLowerWave, !.maxWaveEdit = vmwUpperWave,
            !.minWinEdit = vmwLowerWinWidth, !.maxWinEdit = vmwUpperWinWidth,
            !.windowStepEdit = vmwWinStep, !.numWindowsEdit = Empty]
    /\ checked' = [checked EXCEPT !.emissivitySearchCheckBox = FALSE,
                                  !.metricPlotCheckBox = FALSE]
    /\ visible' = [visible EXCEPT
            !.maxWinEdit = TRUE, !.windowLimitsUnits = TRUE,
            !.windowStepUnits = TRUE, !.numWindowsEdit = FALSE,
            !.emissivitySearchCheckBox = FALSE, !.metricPlotCheckBox = FALSE]

\* _multipleOptions without the two setChecked(False) calls of lines 604-605.
_multipleOptionsKeepingChecks ==
    /\ edit' = [edit EXCEPT
            !.measurementToleranceEdit = mmwTolerance,
            !.minTempEdit = mmwLowerTemp, !.maxTempEdit = mmwUpperTemp,
            !.minWaveEdit = mmwLowerWave, !.maxWaveEdit = mmwUpperWave,
            !.minWinEdit = mmwLowerWinWidth, !.maxWinEdit = mmwUpperWinWidth,
            !.windowStepEdit = mmwWinStep, !.numWindowsEdit = mmwNumWins]
    /\ checked' = checked
    /\ visible' = [visible EXCEPT
            !.maxWinEdit = TRUE, !.windowLimitsUnits = TRUE,
            !.windowStepUnits = TRUE, !.numWindowsEdit = TRUE,
            !.emissivitySearchCheckBox = FALSE, !.metricPlotCheckBox = FALSE]

_multipleOptions ==
    /\ edit' = [edit EXCEPT
            !.measurementToleranceEdit = mmwTolerance,
            !.minTempEdit = mmwLowerTemp, !.maxTempEdit = mmwUpperTemp,
            !.minWaveEdit = mmwLowerWave, !.maxWaveEdit = mmwUpperWave,
            !.minWinEdit = mmwLowerWinWidth, !.maxWinEdit = mmwUpperWinWidth,
            !.windowStepEdit = mmwWinStep, !.numWindowsEdit = mmwNumWins]
    /\ checked' = [checked EXCEPT !.emissivitySearchCheckBox = FALSE,
                                  !.metricPlotCheckBox = FALSE]
    /\ visible' = [visible EXCEPT
            !.maxWinEdit = TRUE, !.windowLimitsUnits = TRUE,
            !.windowStepUnits = TRUE, !.numWindowsEdit = TRUE,
            !.emissivitySearchCheckBox = FALSE, !.metricPlotCheckBox = FALSE]

\* The slot of techniqueComboBox.currentIndexChanged, for the text of the
\* newly selected item.
_handleTechnique(technique) ==
    IF Contains("Waterband", technique) THEN _waterbandOptions
    ELSE IF Contains("Standard", technique) THEN _standardOptions
    ELSE IF Contains("Variable", technique) THEN _variableOptions
    ELSE IF Contains("Multiple", technique) THEN _multipleOptions
    ELSE _movingOptions

\* The state once MainWindow() has returned: empty file and plate fields, the
\* first combo item selected, and _waterbandOptions applied by _optionSelector.
Init ==
    /\ techniqueComboBox = 1
    /\ edit = [n \in EditNames |->
            CASE n = "measurementToleranceEdit" -> wbTolerance
              [] n = "minTempEdit" -> wbLowerTemp
              [] n = "maxTempEdit" -> wbUpperTemp
              [] n = "minWaveEdit" -> wbLowerWave
              [] n = "maxWaveEdit" -> wbUpperWave
              [] OTHER -> Empty]
    /\ checked = [b \in CheckBoxNames |-> FALSE]
    /\ visible = [windowLimitsUnits |-> FALSE, maxWinEdit |-> TRUE,
                  windowStepUnits |-> FALSE, numWindowsEdit |-> FALSE,
                  emissivitySearchCheckBox |-> TRUE, metricPlotCheckBox |-> TRUE]
    /\ temperatureEdit = <<" ">>
    /\ run = NoRun
    /\ remembered = NothingRemembered

\* The user picks another item of the technique selector.
SelectTechnique ==
    \E i \in 1..Len(TechniqueItems) :
        /\ i # techniqueComboBox
        /\ techniqueComboBox' = i
        /\ _handleTechnique(TechniqueItems[i])
        /\ run' = NoRun
        /\ remembered' = [remembered EXCEPT !.changed = remembered.recorded]
        /\ UNCHANGED temperatureEdit

\* ------------------------------------------------------------- user events

\* What the user types into an option field of the model.
TextChoices(n) ==
    CASE n = "plateEdit" -> {Empty, <<"1">>, <<"0", ".", "5">>}
      [] n = "measurementToleranceEdit" -> {<<"1">>, <<"2">>}
      [] n = "maxTempEdit" -> {<<"3", "0", "0">>, <<"3", "0", "0", ".", "1">>}
      [] n = "minWinEdit" -> {<<"1">>, <<"2">>}
      [] n = "windowStepEdit" -> {<<"0", ".", "5">>, <<"0">>}
      [] OTHER -> {}

\* The Browse buttons: the text becomes what the file dialog returns, the
\* chosen file or the empty string when the dialog is cancelled.
_handleCbbButton ==
    /\ \E f \in {Empty, CbbFile} : edit' = [edit EXCEPT !.cbbEdit = f]
    /\ run' = NoRun
    /\ UNCHANGED <<techniqueComboBox, checked, visible, temperatureEdit, remembered>>

_handleWbbButton ==
    /\ \E f \in {Empty, WbbFile} : edit' = [edit EXCEPT !.wbbEdit = f]
    /\ run' = NoRun
    /\ UNCHANGED <<techniqueComboBox, checked, visible, temperatureEdit, remembered>>

_handleSamButton ==
    /\ \E f \in {Empty, SamFile, SamFileSteady} : edit' = [edit EXCEPT !.samEdit = f]
    /\ run' = NoRun
    /\ UNCHANGED <<techniqueComboBox, checked, visible, temperatureEdit, remembered>>

_handleDwrButton ==
    /\ \E f \in {Empty, DwrFile} : edit' = [edit EXCEPT !.dwrEdit = f]
    /\ run' = NoRun
    /\ UNCHANGED <<techniqueComboBox, checked, visible, temperatureEdit, remembered>>

\* The user replaces the text of a visible line edit.
EditText ==
    \E n \in EditNames : \E t \in TextChoices(n) :
        /\ Shown(n)
        /\ edit[n] # t
        /\ edit' = [edit EXCEPT ![n] = t]
        /\ run' = NoRun
        /\ UNCHANGED <<techniqueComboBox, checked, visible, temperatureEdit, remembered>>

\* The user clicks a visible check box.
ToggleCheckBox ==
    \E b \in CheckBoxNames :
        /\ Shown(b)
        /\ checked' = [checked EXCEPT ![b] = ~checked[b]]
        /\ run' = NoRun
        /\ UNCHANGED <<techniqueComboBox, edit, visible, temperatureEdit, remembered>>

\* ---------------------------------------------------------- numpy helpers

\* np.arange(start, stop, step) for step > 0, all three in tenths.
Arange(start, stop, step) ==
    LET n == IF stop > start THEN ((stop - start) + step - 1) \div step ELSE 0
    IN  [i \in 1..n |-> start + (i - 1) * step]

\* np.argmin: the position (counted from 1) of the first smallest element.
ArgMin(m) ==
    CHOOSE i \in 1..Len(m) :
        /\ \A j \in 1..Len(m) : m[i] <= m[j]
        /\ \A j \in 1..(i - 1) : m[j] > m[i]

NpZeros(n) == [k \in 1..n |-> 0]

\* Element division of float arrays: a zero divisor gives nan or a signed
\* infinity (and a RuntimeWarning), never an exception; any other quotient
\* is kept exactly, as its numerator and denominator.
NpDivide(n, d) ==
    IF d = 0 THEN <<(IF n = 0 THEN "nan" ELSE IF n > 0 THEN "inf" ELSE "-inf"), n, d>>
    ELSE <<"finite", n, d>>

\* ------------------------------------- the engine behind the interface
\* bb_radiance, dp_radiance_calibration and tes are imported modules.

\* bbRadiance(temperature, wavelength) for temperature > 0: positive and
\* increasing in the temperature at every wavelength bin.
bbRadiance(temperature) == [k \in 1..NumWave |-> temperature * k]

\* What bbRadiance can do at a temperature outside its contract (<= 0).
BbOutOfContract == {"raise", "zeros"}

\* The calibrated radiance dp.readDpFile and dp.calibrateDpData leave in
\* spectrum.value for each file of the model. The downwelling radiance
\* equals the blackbody radiance of 300.1 K in the first bin.
SpectrumValue(path) ==
    [k \in 1..NumWave |->
        CASE path = CbbFile -> 2800 * k
          [] path = WbbFile -> 3200 * k
          [] path \in {SamFile, SamFileSteady} -> 2900 * k
          [] OTHER -> IF k = 1 THEN 3001 ELSE 10]

\* dp.readDpFile(path): the decoded file; the empty path names no file.
readDpFileOk(path) == path # Empty

readDpFile(path) == [file |-> path, value |-> SpectrumValue(path)]

\* The consistency ratio of each source, in thousandths: 1.0 for a file
\* whose repeated scans agree exactly, 0.98 for the two files whose scans differ.
ConsistencyRatio(path) == IF path \in {SamFile, DwrFile} THEN 980 ELSE 1000

\* dp.calibrateDpData(plateEmissivity, cbb, wbb, sam[, dwr]): one ratio per
\* source passed.
calibrateDpData(args) == [i \in 1..(Len(args) - 1) |-> ConsistencyRatio(args[i + 1].file)]

\* The candidate temperatures of a search: the 0.1 K grid in [lowerTemp, upperTemp].
Candidates(lowerTemp, upperTemp) ==
    [i \in 1..(IF upperTemp >= lowerTemp THEN upperTemp - lowerTemp + 1 ELSE 0) |->
        lowerTemp + (i - 1)]

MetricValues == {1, 2}

\* What a search can return for the temperature and the trace: the sentinel
\* 0.0 with an empty trace, or the first minimum of a trace that holds one
\* value per candidate.
SearchOutcomes(lowerTemp, upperTemp) ==
    LET c == Candidates(lowerTemp, upperTemp)
    IN  {[temp |-> 0, diffs |-> << >>]} \cup
        {[temp |-> c[ArgMin(d)], diffs |-> d] : d \in [1..Len(c) -> MetricValues] \ {<< >>}}

\* tes.waterbandTes(sam, dwr, lowerTemp, upperTemp, lowerWave, upperWave)
waterbandTes(args) == SearchOutcomes(args[3], args[4])

\* tes.tes(sam, dwr, lowerTemp, upperTemp, lowerWave, upperWave, lowerWin,
\*         upperWin, windowSteps, numWindows): besides temperature and trace,
\* the auxiliary score and numWindows adjacent windows of one of the widths.
tes(args) ==
    {[assd |-> 1, temp |-> o.temp, diffs |-> o.diffs,
      wave |-> IF o.temp = 0 THEN << >>
               ELSE [j \in 1..args[10] |-> <<args[5] + (j - 1) * w, args[5] + j * w>>]] :
        o \in SearchOutcomes(args[3], args[4]), w \in {args[7], args[8]}}

\* ------------------------------------------------------- the plot windows

\* YLabel with the two labels exchanged.
YLabelSwapped(waterband) ==
    IF waterband THEN "Average squared second derivative" ELSE "Standard deviation"

\* Lines 1104-1107: the y-axis label _plot sets for self.waterband.
YLabel(waterband) ==
    IF waterband THEN "Standard deviation" ELSE "Average squared second derivative"

\* MetricPlotWindow(lowerTemp, upperTemp, metric, waterband): the constructor
\* stores its arguments and runs _plot. raised is the exception that leaves
\* the constructor, index the position np.argmin returns (0-based), marker
\* the point drawn in red.
MetricPlotWindow(lowerTemp, upperTemp, metric, waterband) ==
    LET temps == Arange(lowerTemp, upperTemp + 10, 1)
        none == [raised |-> "", temps |-> temps, metric |-> metric,
                 waterband |-> waterband,
                 plotted |-> FALSE, index |-> -1, marker |-> << >>, ylabel |-> ""]
    IN  IF Len(metric) = 0
        THEN [none EXCEPT !.raised = "ValueError"]        \* argmin of an empty sequence
        ELSE IF Len(temps) # Len(metric)
        THEN [none EXCEPT !.raised = "ValueError",        \* x and y differ in length
                          !.index = ArgMin(metric) - 1]
        ELSE [none EXCEPT !.plotted = TRUE,
                          !.index = ArgMin(metric) - 1,
                          !.marker = <<temps[ArgMin(metric)], metric[ArgMin(metric)]>>,
                          !.ylabel = YLabel(waterband)]

\* The emissivity curve _drawPlot computes from the three radiance arrays.
EmissivityCurve(samRadiance, dwrRadiance, bb) ==
    [k \in 1..Len(samRadiance) |->
        NpDivide(samRadiance[k] - dwrRadiance[k], bb[k] - dwrRadiance[k])]

\* DwrRadiance with np.ones in place of np.zeros.
DwrRadianceOnes(dwr, samRadiance) ==
    IF dwr = << >> THEN [k \in 1..Len(samRadiance) |-> 1] ELSE dwr[1].value

\* The downwelling array of _drawPlot.
DwrRadiance(dwr, samRadiance) ==
    IF dwr = << >> THEN NpZeros(Len(samRadiance)) ELSE dwr[1].value

\* The temperatures _drawPlot sweeps when search is set.
SweepTemps(lowerTemp, upperTemp) == Arange(lowerTemp, upperTemp + 10, 1)

\* EmissivityPlotWindow(sam, dwr, lowerTemp, upperTemp, temp, wave, search):
\* the constructor runs _drawPlot. bbCalls lists the temperatures passed to
\* bbRadiance, in order; frames the indices handed to FuncAnimation; zero is
\* what bbRadiance does at a temperature <= 0.
EmissivityPlotWindow(sam, dwr, lowerTemp, upperTemp, temp, wave, search, zero) ==
    LET samRadiance == sam[1].value
        dwrRadiance == DwrRadiance(dwr, samRadiance)
        temps == IF search THEN SweepTemps(lowerTemp, upperTemp) ELSE << >>
        bbOf(t) == IF t > 0 THEN bbRadiance(t) ELSE NpZeros(NumWave)
        badSweep == {i \in 1..Len(temps) : temps[i] <= 0}
        none == [raised |-> "", search |-> search, temps |-> temps,
                 emissivity |-> << >>, frames |-> << >>,
                 finalEmissivity |-> << >>, bands |-> << >>, bbCalls |-> << >>]
    IN  IF zero = "raise" /\ badSweep # {}
        THEN [none EXCEPT !.raised = "ZeroDivisionError",
                          !.bbCalls = SubSeq(temps, 1, CHOOSE i \in badSweep :
                                                \A j \in badSweep : i <= j)]
        ELSE IF zero = "raise" /\ temp <= 0
        THEN [none EXCEPT !.raised = "ZeroDivisionError",
                          !.emissivity = [i \in 1..Len(temps) |->
                              EmissivityCurve(samRadiance, dwrRadiance, bbOf(temps[i]))],
                          !.frames = IF search THEN Arange(1, Len(temps), 1) ELSE << >>,
                          !.bbCalls = temps \o <<temp>>]
        ELSE [none EXCEPT !.emissivity = [i \in 1..Len(temps) |->
                              EmissivityCurve(samRadiance, dwrRadiance, bbOf(temps[i]))],
                          !.frames = IF search THEN Arange(1, Len(temps), 1) ELSE << >>,
                          !.finalEmissivity =
                              EmissivityCurve(samRadiance, dwrRadiance, bbOf(temp)),
                          !.bands = wave,
                          !.bbCalls = temps \o <<temp>>]

\* ---------------------------------------------------------- findTemperature

Raise(r, exception, where) == [r EXCEPT !.raised = exception, !.at = where]

\* Gather with the lower temperature limit replaced by the upper one once
\* an earlier call has set the label.
GatherAfterLabel(r) ==
    IF \E n \in {"measurementToleranceEdit", "minTempEdit", "maxTempEdit",
                 "minWaveEdit", "maxWaveEdit"} : ~PyFloatOk(edit[n])
    THEN Raise(r, "ValueError", "float")
    ELSE [r EXCEPT !.tolerance = PyFloatVal(edit.measurementToleranceEdit),
                   !.lowerTemp = IF temperatureEdit # <<" ">>
                                 THEN PyFloatVal(edit.maxTempEdit)
                                 ELSE PyFloatVal(edit.minTempEdit),
                   !.upperTemp = PyFloatVal(edit.maxTempEdit),
                   !.lowerWave = PyFloatVal(edit.minWaveEdit),
                   !.upperWave = PyFloatVal(edit.maxWaveEdit)]

\* Lines 698-713: the five float() conversions of the option fields.
Gather(r) ==
    IF \E n \in {"measurementToleranceEdit", "minTempEdit", "maxTempEdit",
                 "minWaveEdit", "maxWaveEdit"} : ~PyFloatOk(edit[n])
    THEN Raise(r, "ValueError", "float")
    ELSE [r EXCEPT !.tolerance = PyFloatVal(edit.measurementToleranceEdit),
                   !.lowerTemp = PyFloatVal(edit.minTempEdit),
                   !.upperTemp = PyFloatVal(edit.maxTempEdit),
                   !.lowerWave = PyFloatVal(edit.minWaveEdit),
                   !.upperWave = PyFloatVal(edit.maxWaveEdit)]

\* Lines 715-718: -1 for an empty plate field, int(text) otherwise.
PlateEmissivity(r) ==
    IF edit.plateEdit = Empty THEN [r EXCEPT !.plateEmissivity = -1 * 10]
    ELSE IF PyIntOk(edit.plateEdit)
         THEN [r EXCEPT !.plateEmissivity = PyIntVal(edit.plateEdit) * 10]
         ELSE Raise(r, "ValueError", "int(plateEmissivity)")

\* Lines 720-730: the files are read and calibrated, with or without the
\* downwelling file.
Calibrate(r) ==
    IF \E n \in {"cbbEdit", "wbbEdit", "samEdit"} : ~readDpFileOk(edit[n])
    THEN Raise(r, "IOError", "readDpFile")
    ELSE LET cbb == readDpFile(edit.cbbEdit)
             wbb == readDpFile(edit.wbbEdit)
             sam == readDpFile(edit.samEdit)
             dwr == IF edit.dwrEdit = Empty THEN << >>
                    ELSE <<readDpFile(edit.dwrEdit)>>
             args == <<r.plateEmissivity, cbb, wbb, sam>> \o dwr
         IN  [r EXCEPT !.sam = <<sam>>, !.dwr = dwr,
                       !.calibrateCalls = <<args>>,
                       !.toleranceTests = calibrateDpData(args)]

\* Lines 732-755: the window parameters and the number of window steps, the
\* latter as the pair <<numerator, denominator>> of the quotient plus one.
WindowParameters(r) ==
    IF edit.minWinEdit # Empty /\ ~PyFloatOk(edit.minWinEdit)
    THEN Raise(r, "ValueError", "float(lowerWin)")
    ELSE IF edit.maxWinEdit # Empty /\ ~PyFloatOk(edit.maxWinEdit)
    THEN Raise(r, "ValueError", "float(upperWin)")
    ELSE IF edit.windowStepEdit # Empty /\ ~PyFloatOk(edit.windowStepEdit)
    THEN Raise(r, "ValueError", "float(windowStep)")
    ELSE IF edit.numWindowsEdit # Empty /\ ~PyIntOk(edit.numWindowsEdit)
    THEN Raise(r, "ValueError", "int(numWindows)")
    ELSE LET lowerWin == IF edit.minWinEdit = Empty THEN r.upperWave - r.lowerWave
                         ELSE PyFloatVal(edit.minWinEdit)
             upperWin == IF edit.maxWinEdit = Empty THEN lowerWin
                         ELSE PyFloatVal(edit.maxWinEdit)
             windowStep == IF edit.windowStepEdit = Empty THEN 1 * 10
                           ELSE PyFloatVal(edit.windowStepEdit)
             numWindows == IF edit.numWindowsEdit = Empty THEN 1
                           ELSE PyIntVal(edit.numWindowsEdit)
             s == [r EXCEPT !.lowerWin = lowerWin, !.upperWin = upperWin,
                            !.windowStep = windowStep, !.numWindows = numWindows]
         IN  IF upperWin = lowerWin THEN [s EXCEPT !.windowSteps = <<1, 1>>]
             ELSE IF windowStep = 0 THEN Raise(s, "ZeroDivisionError", "windowSteps")
             ELSE [s EXCEPT !.windowSteps = <<(upperWin - lowerWin) + windowStep, windowStep>>]

\* Line 759: the arguments of the single-window search.
WaterbandTesArgs(technique, r) ==
    <<r.sam[1], r.dwr, r.lowerTemp, r.upperTemp, r.lowerWave, r.upperWave>>

\* TesArgs with the technique passed as an eleventh argument.
TesArgsWithTechnique(technique, r) ==
    <<r.sam[1], r.dwr, r.lowerTemp, r.upperTemp, r.lowerWave, r.upperWave,
      r.lowerWin, r.upperWin, r.windowSteps, r.numWindows, technique>>

\* Line 762: the arguments of the windowed search.
TesArgs(technique, r) ==
    <<r.sam[1], r.dwr, r.lowerTemp, r.upperTemp, r.lowerWave, r.upperWave,
      r.lowerWin, r.upperWin, r.windowSteps, r.numWindows>>

\* IsWaterband testing for the wrong word.
IsWaterbandMoving(technique) == Contains("Moving", technique)

\* Line 758: which search the technique selects.
IsWaterband(technique) == Contains("Waterband", technique)

\* Lines 757-762: the search call the handler issues.
SearchCall(technique, r) ==
    IF IsWaterband(technique)
    THEN [fn |-> "waterbandTes", args |-> WaterbandTesArgs(technique, r)]
    ELSE [fn |-> "tes", args |-> TesArgs(technique, r)]

\* What the call can return.
SearchReturns(call) ==
    IF call.fn = "waterbandTes" THEN waterbandTes(call.args) ELSE tes(call.args)

\* Lines 757-762: the locals after the search has returned res.
Search(technique, r, res) ==
    [r EXCEPT !.searchCalls = Append(r.searchCalls, SearchCall(technique, r)),
              !.temp = res.temp, !.diffs = res.diffs,
              !.wave = IF IsWaterband(technique)
                       THEN <<<<r.lowerWave, r.upperWave>>>>
                       ELSE res.wave]

DigitChar == [d \in 0..9 |->
    CASE d = 0 -> "0" [] d = 1 -> "1" [] d = 2 -> "2" [] d = 3 -> "3"
      [] d = 4 -> "4" [] d = 5 -> "5" [] d = 6 -> "6" [] d = 7 -> "7"
      [] d = 8 -> "8" [] d = 9 -> "9"]

RECURSIVE DecText(_)
\* The decimal digits of a natural number.
DecText(n) == IF n < 10 THEN <<DigitChar[n]>>
              ELSE Append(DecText(n \div 10), DigitChar[n % 10])

\* '{0:.1f} K'.format(temp) for a temperature >= 0 held in tenths.
FormatTemp(temp) == DecText(temp \div 10) \o <<".", DigitChar[temp % 10], " ", "K">>

Unknown == <<"U", "n", "k", "n", "o", "w", "n">>

\* TemperatureText with the test of line 765 inverted.
TemperatureTextInverted(temp) == IF temp # 0 THEN Unknown ELSE FormatTemp(temp)

\* Lines 764-768: the text the label is given.
TemperatureText(temp) == IF temp = 0 THEN Unknown ELSE FormatTemp(temp)

\* Lines 764-771: the label is set and the progress dialog hidden.
ShowTemperature(r) == [r EXCEPT !.labelSet = TRUE, !.progress = "hidden"]

\* Lines 779-780.
PlotRadiance(r) ==
    IF checked.radiancePlotCheckBox THEN [r EXCEPT !.radiancePlot = TRUE] ELSE r

\* Lines 781-785.
PlotMetric(technique, r) ==
    IF ~checked.metricPlotCheckBox THEN r
    ELSE LET w == MetricPlotWindow(r.lowerTemp, r.upperTemp, r.diffs,
                                   IsWaterband(technique))
         IN  IF w.raised # ""
             THEN Raise([r EXCEPT !.metricPlot = <<w>>], w.raised, "MetricPlotWindow")
             ELSE [r EXCEPT !.metricPlot = <<w>>]

\* Lines 786-789: at most one emissivity window, with or without the sweep.
PlotEmissivity(r, zero) ==
    IF ~checked.emissivityPlotCheckBox /\ ~checked.emissivitySearchCheckBox THEN r
    ELSE LET w == EmissivityPlotWindow(r.sam, r.dwr, r.lowerTemp, r.upperTemp,
                                       r.temp, r.wave,
                                       checked.emissivitySearchCheckBox, zero)
             s == [r EXCEPT !.emissivityPlot = <<w>>, !.bbCalls = w.bbCalls]
         IN  IF w.raised # "" THEN Raise(s, w.raised, "EmissivityPlotWindow") ELSE s

\* ExceedsTolerance with >= in place of >.
ExceedsToleranceInclusive(test, tolerance) == 1000 - test >= tolerance

\* Line 795: one consistency ratio (thousandths) against the tolerance
\* (tenths of a percent).
ExceedsTolerance(test, tolerance) == 1000 - test > tolerance

\* Lines 791-799.
ToleranceWarning(r) ==
    [r EXCEPT !.warning = \E i \in 1..Len(r.toleranceTests) :
                              ExceedsTolerance(r.toleranceTests[i], r.tolerance)]

\* A statement of the handler runs only if none before it raised.
Then(r, next) == IF r.raised # "" THEN r ELSE next

\* The handler up to the search call.
BeforeSearch ==
    LET a == Gather(RunStart)
        b == Then(a, PlateEmissivity(a))
        c == Then(b, Calibrate(b))
    IN  Then(c, WindowParameters(c))

\* The handler from the return of the search to its end.
AfterSearch(technique, r, zero) ==
    LET a == ShowTemperature(r)
        b == PlotRadiance(a)
        c == Then(b, PlotMetric(technique, b))
        d == Then(c, PlotEmissivity(c, zero))
    IN  Then(d, ToleranceWarning(d))

\* findTemperature runs to its end or to the first exception.
Handler ==
    LET technique == currentText
        r == BeforeSearch
    IN  /\ IF r.raised # ""
           THEN /\ run' = r
                /\ UNCHANGED temperatureEdit
           ELSE \E res \in SearchReturns(SearchCall(technique, r)) :
                \E zero \in (IF res.temp <= 0 /\ (checked.emissivityPlotCheckBox
                                                  \/ checked.emissivitySearchCheckBox)
                             THEN BbOutOfContract ELSE {"zeros"}) :
                    /\ run' = AfterSearch(technique, Search(technique, r, res), zero)
                    /\ temperatureEdit' = TemperatureText(res.temp)
        /\ UNCHANGED form

\* The Ok button: _handleOkButton calls findTemperature.
findTemperature == Handler /\ UNCHANGED remembered

\* What is remembered of the call that has just ended.
Remember(r) ==
    [recorded |-> TRUE, changed |-> FALSE, technique |-> techniqueComboBox,
     edit |-> edit, calibrateCalls |-> r.calibrateCalls,
     searchCalls |-> r.searchCalls, temp |-> r.temp]

\* The Ok button, with the call either remembered for a later comparison
\* or not.
findTemperatureRemembered ==
    /\ Handler
    /\ remembered' \in {remembered, Remember(run')}

Next ==
    \/ SelectTechnique
    \/ _handleCbbButton
    \/ _handleWbbButton
    \/ _handleSamButton
    \/ _handleDwrButton
    \/ EditText
    \/ ToggleCheckBox
    \/ findTemperature

Spec == Init /\ [][Next]_vars

\* The events that decide what two calls with the same form contents read:
\* file choices, technique changes and the calls themselves.
NextRemembered ==
    \/ SelectTechnique
    \/ _handleCbbButton
    \/ _handleWbbButton
    \/ _handleSamButton
    \/ _handleDwrButton
    \/ findTemperatureRemembered

SpecRemembered == Init /\ [][NextRemembered]_vars

\* ------------------------------------------------------------------ claims

\* The handler got as far as the search call (nothing before it raised).
ReachedSearch == run.invoked /\ run.labelSet

\* The search returned the documented "unknown" result.
UnknownResult == ReachedSearch /\ run.temp = 0 /\ run.diffs = << >>

\* The plot windows of the last run, as sets of their logs.
EmissivityPlots == {run.emissivityPlot[i] : i \in 1..Len(run.emissivityPlot)}

MetricPlots == {run.metricPlot[i] : i \in 1..Len(run.metricPlot)}

\* C1: when the search returns temperature 0.0 with an empty trace,
\* findTemperature ends without raising, whatever plot check boxes are set.
\* An exception that bbRadiance itself raises at temperature 0 is the matter
\* of C2 and is not counted here.
C1_UnknownNeverRaises ==
    UnknownResult => (run.raised = "" \/ run.at = "EmissivityPlotWindow")

\* C2: every temperature passed to bbRadiance is strictly greater than 0,
\* also when the search returned the sentinel 0.0.
C2_BbTemperaturePositive ==
    run.invoked => \A i \in 1..Len(run.bbCalls) : run.bbCalls[i] > 0

\* C3: every temperature of the emissivity-search sweep and of the metric
\* plot's axis lies in [lowerTemp, upperTemp], on the 0.1 K grid from lowerTemp.
C3_CandidatesWithinLimits ==
    run.invoked =>
        \A w \in EmissivityPlots \cup MetricPlots : \A i \in 1..Len(w.temps) :
            /\ w.temps[i] = run.lowerTemp + (i - 1)
            /\ w.temps[i] <= run.upperTemp

\* C4: with lowerTemp = upperTemp the emissivity-search sweep holds exactly
\* one temperature, lowerTemp.
C4_SingleCandidate ==
    run.invoked =>
        \A w \in EmissivityPlots :
            (w.search /\ run.lowerTemp = run.upperTemp) => w.temps = <<run.lowerTemp>>

\* C5: for lowerTemp <= upperTemp and a trace with one value per candidate
\* of [lowerTemp, upperTemp], the axis of the metric plot has as many
\* entries as the trace, the i-th being lowerTemp + 0.1*i, and is plotted.
C5_MetricAxisAligned ==
    run.invoked =>
        \A w \in MetricPlots :
            (/\ run.lowerTemp <= run.upperTemp
             /\ Len(w.metric) = Len(Candidates(run.lowerTemp, run.upperTemp)))
            => /\ Len(w.temps) = Len(w.metric)
               /\ \A i \in 1..Len(w.temps) : w.temps[i] = run.lowerTemp + (i - 1)
               /\ w.plotted

\* C6: a plate emissivity typed as a value in [0,1] reaches the calibrator
\* with exactly that value; only the empty field gives the sentinel -1.
C6_PlatePassedExactly ==
    (run.invoked /\ run.at # "float") =>
        /\ (/\ edit.plateEdit # Empty
            /\ PyFloatOk(edit.plateEdit)
            /\ PyFloatVal(edit.plateEdit) \in 0..10)
           => /\ run.at # "int(plateEmissivity)"
              /\ \A i \in 1..Len(run.calibrateCalls) :
                     run.calibrateCalls[i][1] = PyFloatVal(edit.plateEdit)
        /\ \A i \in 1..Len(run.calibrateCalls) :
               /\ run.calibrateCalls[i][1] = -10 <=> edit.plateEdit = Empty
               /\ edit.plateEdit = Empty => run.calibrateCalls[i][1] \notin 0..10

\* The emissivity curves the last run computed at a temperature bbRadiance
\* is defined for: the frames of the sweep and the final curve.
Curves(w) == {w.emissivity[i] : i \in {j \in 1..Len(w.emissivity) : w.temps[j] > 0}}
             \cup (IF w.finalEmissivity # << >> /\ run.temp > 0
                   THEN {w.finalEmissivity} ELSE {})

\* C7: a zero denominator never puts an infinity or a NaN into an
\* emissivity curve, neither in a search frame nor in the final curve.
C7_NoInfinityInCurves ==
    run.invoked =>
        \A w \in EmissivityPlots : \A c \in Curves(w) : \A k \in 1..Len(c) :
            c[k][1] = "finite"

\* The radiance arrays the form names: the sample, and the downwelling,
\* which is zero in every bin when no downwelling file is given.
FormSample == SpectrumValue(edit.samEdit)

FormDown == IF edit.dwrEdit = Empty THEN [k \in 1..NumWave |-> 0]
            ELSE SpectrumValue(edit.dwrEdit)

\* Curve c is (sample - down) / (B(T) - down) in every bin: the same
\* rational number where the denominator is not zero, and the IEEE result
\* of the division (no finite number) where it is.
IsEmissivityAt(c, T) ==
    /\ Len(c) = NumWave
    /\ \A k \in 1..NumWave :
           LET den == bbRadiance(T)[k] - FormDown[k]
           IN  IF den = 0 THEN c[k][1] # "finite"
               ELSE /\ c[k][1] = "finite"
                    /\ c[k][2] * den = c[k][3] * (FormSample[k] - FormDown[k])

\* C8: every frame of the search and the final curve equal
\* (sample - down) / (B(T) - down) at every wavelength, with down zero
\* everywhere when no downwelling file was supplied.
C8_EmissivityFormula ==
    run.invoked =>
        \A w \in EmissivityPlots :
            /\ Len(w.emissivity) = Len(w.temps)
            /\ \A i \in 1..Len(w.emissivity) :
                   w.temps[i] > 0 => IsEmissivityAt(w.emissivity[i], w.temps[i])
            /\ (w.raised = "" /\ run.temp > 0) => IsEmissivityAt(w.finalEmissivity, run.temp)

\* A run without downwelling file that drew the search frames and the final curve.
C8_Witness ==
    /\ run.invoked
    /\ edit.dwrEdit = Empty
    /\ run.temp > 0
    /\ \E w \in EmissivityPlots : w.search /\ w.emissivity # << >> /\ w.finalEmissivity # << >>

\* The one search call of the last run.
TheCall == run.searchCalls[1]

WholeAtLeastOne(p) == p[2] > 0 /\ p[1] % p[2] = 0 /\ p[1] \div p[2] >= 1

\* C11: whatever window limits and window step the form holds, the handler
\* computes windowSteps without failing, and the value the windowed search
\* is given is a whole number >= 1: 1 when lowerWin = upperWin, otherwise
\* the number of widths lowerWin, lowerWin+step, ..., upperWin.
C11_WindowStepsWhole ==
    run.invoked =>
        /\ run.at # "windowSteps"
        /\ (ReachedSearch /\ TheCall.fn = "tes") =>
             /\ WholeAtLeastOne(TheCall.args[9])
             /\ run.lowerWin = run.upperWin => TheCall.args[9] = <<1, 1>>
             /\ run.lowerWin # run.upperWin =>
                    TheCall.args[9][1] = (Cardinality({w \in run.lowerWin..run.upperWin :
                        (w - run.lowerWin) % run.windowStep = 0})) * TheCall.args[9][2]

\* Some consistency ratio of the last run deviates from 1.0 by strictly more
\* than the tolerance of the form (a percentage).
SomeRatioExceeds ==
    \E i \in 1..Len(run.toleranceTests) :
        1000 - run.toleranceTests[i] > PyFloatVal(edit.measurementToleranceEdit)

LabelNumber == SubSeq(temperatureEdit, 1, Len(temperatureEdit) - 2)

\* C13: once the search has returned, the label reads 'Unknown' exactly
\* when the returned temperature is 0.0; otherwise it is the returned
\* temperature, as a decimal number, followed by ' K'.
C13_LabelUnknownIffSentinel ==
    ReachedSearch =>
        /\ temperatureEdit = Unknown <=> run.temp = 0
        /\ run.temp # 0 =>
             /\ Len(temperatureEdit) > 2
             /\ SubSeq(temperatureEdit, Len(temperatureEdit) - 1, Len(temperatureEdit)) = <<" ", "K">>
             /\ PyFloatOk(LabelNumber)
             /\ PyFloatVal(LabelNumber) = run.temp

\* A run whose search returned 300.1 K.
C13_Witness ==
    /\ ReachedSearch
    /\ run.temp = 3001
    /\ temperatureEdit = <<"3", "0", "0", ".", "1", " ", "K">>

\* The form holds what it held when the remembered call was made.
SameFormAsRemembered ==
    /\ remembered.recorded
    /\ remembered.technique = techniqueComboBox
    /\ remembered.edit = edit

WindowEdits == {"minWinEdit", "maxWinEdit", "windowStepEdit", "numWindowsEdit"}

\* C15: a window field the current technique hides is empty, whatever
\* techniques were selected before, and so the windowed search gets the
\* neutral values: for Standard one window as wide as the search band, one
\* step and one window; for Moving Window upperWin = lowerWin, one step and
\* one window; for Variable Moving Window one window.
C15_HiddenFieldsNeutral ==
    /\ \A n \in WindowEdits : ~Shown(n) => edit[n] = Empty
    /\ (ReachedSearch /\ techniqueComboBox = 2) =>
         /\ TheCall.fn = "tes"
         /\ TheCall.args[7] = TheCall.args[6] - TheCall.args[5]
         /\ TheCall.args[8] = TheCall.args[7]
         /\ TheCall.args[9] = <<1, 1>>
         /\ TheCall.args[10] = 1
    /\ (ReachedSearch /\ techniqueComboBox = 3) =>
         /\ TheCall.fn = "tes"
         /\ TheCall.args[8] = TheCall.args[7]
         /\ TheCall.args[9] = <<1, 1>>
         /\ TheCall.args[10] = 1
    /\ (ReachedSearch /\ techniqueComboBox = 4) =>
         /\ TheCall.fn = "tes"
         /\ TheCall.args[10] = 1

\* A Moving Window run with the window width edited to 2: the search gets
\* that width for both limits, one step and one window.
C15_Witness ==
    /\ ReachedSearch
    /\ techniqueComboBox = 3
    /\ edit.minWinEdit = <<"2">>
    /\ TheCall.args[7] = 20 /\ TheCall.args[8] = 20
    /\ TheCall.args[10] = 1

\* C16: the animation of the emissivity search is handed one frame index for
\* every temperature of the sweep, in increasing order and starting with the
\* index 0 of the lowest temperature.
C16_EveryFrameShown ==
    run.invoked =>
        \A w \in EmissivityPlots :
            (w.search /\ w.temps # << >> /\ Len(w.emissivity) = Len(w.temps)) =>
                w.frames = [i \in 1..Len(w.temps) |-> i - 1]

\* The position of the first smallest value of a non-empty trace.
FirstMinimum(m) ==
    CHOOSE i \in 1..Len(m) :
        /\ \A j \in 1..Len(m) : m[j] >= m[i]
        /\ \A j \in 1..Len(m) : m[j] = m[i] => j >= i

\* C17: for a non-empty trace the metric plot marks the candidate with the
\* smallest trace value, the lowest such temperature when several share it.
C17_MarkerAtFirstMinimum ==
    run.invoked =>
        \A w \in MetricPlots :
            Len(w.metric) > 0 =>
                w.marker = <<Candidates(run.lowerTemp, run.upperTemp)[FirstMinimum(w.metric)],
                             w.metric[FirstMinimum(w.metric)]>>

\* The y-axis label of the metric the technique at index i of the selector
\* is scored by: the smoothness metric for Standard, the dispersion metric
\* for the other four.
MetricLabelOf(i) ==
    IF i = 2 THEN "Average squared second derivative" ELSE "Standard deviation"

C19_HiddenBoxesUnchecked ==
    techniqueComboBox \in {3, 4, 5} =>
        /\ ~visible.emissivitySearchCheckBox /\ ~visible.metricPlotCheckBox
        /\ ~checked.emissivitySearchCheckBox /\ ~checked.metricPlotCheckBox
        /\ run.invoked =>
             /\ MetricPlots = {}
             /\ \A w \in EmissivityPlots : ~w.search /\ w.temps = << >> /\ w.frames = << >>

\* A Multiple Moving Window run that drew the final emissivity curve, the
\* one plot of that kind the technique leaves selectable.
C19_Witness ==
    /\ techniqueComboBox = 5
    /\ ReachedSearch
    /\ checked.emissivityPlotCheckBox
    /\ \E w \in EmissivityPlots : w.raised = "" /\ ~w.search

\* C20: when the handler has ended, also by an exception, the progress
\* dialog it showed is hidden.
C20_ProgressHidden ==
    run.invoked => run.progress = "hidden"

\* The label shows a temperature: a number followed by ' K'.
LabelShowsTemperature ==
    /\ Len(temperatureEdit) > 2
    /\ SubSeq(temperatureEdit, Len(temperatureEdit) - 1, Len(temperatureEdit)) = <<" ", "K">>

\* C21: after a call that an exception ended before it produced a
\* temperature, the label does not show a temperature (that of an earlier
\* call); after a call that produced one, it shows that call's result.
C21_LabelOfLastRun ==
    run.invoked =>
        /\ ~run.labelSet => ~LabelShowsTemperature
        /\ run.labelSet => temperatureEdit = TemperatureText(run.temp)

\* C22: once the search has returned, the warning window is shown whenever
\* some consistency ratio exceeds the tolerance, whichever plots were
\* requested, whatever the search returned and whether or not building a
\* plot failed. A run that bbRadiance itself ended, called with the
\* temperature 0 (the matter of C2), is not counted.
C22_WarningDespitePlots ==
    (ReachedSearch /\ SomeRatioExceeds /\ run.at # "EmissivityPlotWindow") => run.warning

====
